---- MODULE Spec2Model ----
(***************************************************************************)
(* WebSocketProvider (packages/providers/src.ts/websocket-provider.ts):    *)
(* the request correlator (send / onmessage), the readiness gate (onopen)  *)
(* and the subscription manager (_subscribe / _startEvent / _stopEvent).   *)
(*                                                                         *)
(* Each operator does what the method or handler has done when it returns  *)
(* to its caller; what the source leaves to a promise callback is a job    *)
(* appended to the job queue (jobs), which the engine runs first in first  *)
(* out when the synchronous code of the task has ended (RunJobs).  A call  *)
(* of a public method (on, off, send) is a step that leaves its jobs in    *)
(* the queue, so that further calls can follow in the same tick before     *)
(* Drain runs them; a transport event is a task of its own, the handler    *)
(* followed by the drain.  Reactions on one promise are queued in the      *)
(* order in which they were attached, await and then alike: await of a     *)
(* native promise attaches its continuation to that promise directly       *)
(* (ECMAScript 2019 await, and the adopt step of the TypeScript __awaiter  *)
(* helper).  The ws transport can raise message for several frames of one  *)
(* chunk within one task; Burst and SpecBurst model that delivery.         *)
(*                                                                         *)
(* JSON values: an optional field is a sequence of length 0 (absent) or 1. *)
(* Keys of _requests are String(id) in the source; String is injective on  *)
(* the integers used as ids here, so the key is written as the integer.    *)
(***************************************************************************)
EXTENDS Integers, Sequences, FiniteSets, TLC

\* ------------------------------------------------------------- bounds
\* calls to send() in one behaviour
MaxId == 3
\* calls to _subscribe() in one behaviour
MaxSubscribe == 2
\* listeners registered at one time for one event
MaxListeners == 2
\* send() calls made on a second provider instance of the same process
MaxPeer == 1

\* ------------------------------------------------------------- inputs
\* an id no call was ever given is MaxId + 1
MsgIds == 1..(MaxId + 1)
\* result values of ordinary calls (0x1, 0x10)
Results == {1, 16}
\* error.message as the backend may supply it: absent, empty, a text
Messages == {<<>>, <<"">>, <<"bad">>}
\* error.code as the backend may supply it: absent, zero, a JSON-RPC code
Codes == {<<>>, <<0>>, <<-32000>>}

\* The events a listener can be registered for: a block listener, one log
\* filter and two transaction watches.
Events == {"block", "filter", "tx1", "tx2"}

EventType(e) == IF e \in {"tx1", "tx2"} THEN "tx" ELSE e

\* event.tag, the key _stopEvent starts from
EventTag(e) == e

\* the tag _startEvent hands to _subscribe
SubscribeTag(e) == IF EventType(e) = "tx" THEN "tx" ELSE EventTag(e)

VARIABLES
    NextId,      \* the module-level counter, shared by every provider
    _wsReady,    \* this._wsReady
    _requests,   \* this._requests: id -> [callback, payload]
    _subIds,     \* this._subIds: tag -> promise (an index into promises)
    _subs,       \* this._subs: subscription id -> [tag, processFunc]
    promises,    \* the subIdPromise objects created by _subscribe
    nSub,        \* number of _subscribe calls so far (names each processFunc)
    _events,     \* the listener registry of the base provider: event -> count
    socketOpen,  \* the transport has raised its open signal
    wire,        \* every payload handed to _websocket.send, in order, with
                 \* the place that sent it ("send" or "onopen")
    invoked,     \* per call id: how often its completion callback ran
    issued,      \* every call of send(), in order: its provider and payload
    peer,        \* ids held by a second provider instance (never opened)
    jobs,        \* the promise jobs queued and not yet run, oldest first
    last         \* what the most recent task did

vars == <<NextId, _wsReady, _requests, _subIds, _subs, promises, nSub,
          _events, socketOpen, wire, invoked, issued, peer, jobs, last>>

\* ------------------------------------------------------------ helpers
Restrict(f, S) == [x \in S |-> f[x]]

Remove(f, x) == Restrict(f, DOMAIN f \ {x})

\* f with key k set to v (an object property assignment)
Put(f, k, v) == [x \in DOMAIN f \cup {k} |-> IF x = k THEN v ELSE f[x]]

RECURSIVE SortedSeq(_)
\* a set of integers as an ascending sequence
SortedSeq(S) ==
    IF S = {} THEN <<>>
    ELSE LET lo == CHOOSE x \in S : \A y \in S : x <= y
         IN  <<lo>> \o SortedSeq(S \ {lo})

RECURSIVE Reverse(_)
Reverse(q) == IF q = <<>> THEN <<>> ELSE Append(Reverse(Tail(q)), Head(q))

\* a key enumeration that yields the newest entry first
ObjectKeysNewestFirst(obj) == Reverse(SortedSeq(DOMAIN obj))

\* Object.keys of an object whose keys are canonical array indices: ascending
\* numeric order (OrdinaryOwnPropertyKeys)
ObjectKeys(obj) == SortedSeq(DOMAIN obj)

\* What one task did, as the claims observe it: whether the handler threw,
\* the completion callbacks it invoked (with what), the dispatch functions
\* it invoked, the receipt fetches it started, the subscription id each
\* _subscribe continuation resumed with and the error each _subscribe call
\* failed with.
Effect(op, msg, event, m) ==
    [op |-> op, msg |-> msg, event |-> event, threw |-> m.threw,
     completed |-> m.completed, dispatch |-> m.dispatch, fetch |-> m.fetch,
     bound |-> m.bound, failed |-> m.failed]

\* ------------------------------------------------- the provider state
\* The fields a method body reads and writes, gathered in one record so that
\* a task can thread them through the calls it makes.
Mach ==
    [NextId |-> NextId, ready |-> _wsReady, requests |-> _requests,
     subIds |-> _subIds, subs |-> _subs, promises |-> promises,
     nSub |-> nSub, wire |-> wire, invoked |-> invoked, events |-> _events,
     issued |-> issued, jobs |-> jobs, self |-> 1,
     threw |-> FALSE, completed |-> {}, dispatch |-> {}, fetch |-> {},
     bound |-> {}, failed |-> {}]

Commit(m) ==
    /\ m.NextId <= MaxId + 1
    /\ NextId' = m.NextId
    /\ _requests' = m.requests
    /\ _subIds' = m.subIds
    /\ _subs' = m.subs
    /\ promises' = m.promises
    /\ nSub' = m.nSub
    /\ wire' = m.wire
    /\ invoked' = m.invoked
    /\ issued' = m.issued
    /\ _events' = m.events
    /\ jobs' = m.jobs

\* ------------------------------------------------------------- send
\* JSON.stringify({ method, params, id, jsonrpc: "2.0" })
Payload(method, params, rid) ==
    [method |-> method, params |-> params, id |-> rid, jsonrpc |-> "2.0"]

\* a send that reads the counter and does not advance it
sendSameId(m, method, params) ==
    LET rid == m.NextId
        payload == Payload(method, params, rid)
    IN  [m EXCEPT !.requests = Put(@, rid, [callback |-> rid, payload |-> payload]),
                  !.wire = IF m.ready
                           THEN Append(@, [payload |-> payload, by |-> "send"])
                           ELSE @,
                  !.invoked = Put(@, <<m.self, rid>>, 0),
                  !.issued = Append(@, [self |-> m.self, payload |-> payload])]

\* send(method, params): const rid = NextId++; the request is stored under
\* String(rid); the payload goes out now only if the socket is ready.  The
\* callback closes over the promise of this call, named by rid.
send(m, method, params) ==
    LET rid == m.NextId
        payload == Payload(method, params, rid)
    IN  [m EXCEPT !.NextId = rid + 1,
                  !.requests = Put(@, rid, [callback |-> rid, payload |-> payload]),
                  !.wire = IF m.ready
                           THEN Append(@, [payload |-> payload, by |-> "send"])
                           ELSE @,
                  !.invoked = Put(@, <<m.self, rid>>, 0),
                  !.issued = Append(@, [self |-> m.self, payload |-> payload])]

\* ------------------------------------------------ subscription promises
\* A subIdPromise: Promise.all(param).then(() => this.send("eth_subscribe", ..)).
\*   "params"   the then-callback of Promise.all(param) has not run, nothing
\*              was sent
\*   "called"   send was called with id rid, no response yet
\*   "resolved" the response carried the subscription id value
\*   "rejected" the parameters or the response failed, with error
\* reactions are the continuations attached while it was pending, in order.
NoError ==
    [kind |-> "none", value |-> 0, message |-> "", hasCode |-> FALSE, code |-> <<>>]

\* what Promise.all(param) is rejected with when this._getFilter fails
ParamsError ==
    [kind |-> "reject", value |-> 0, message |-> "filter", hasCode |-> FALSE,
     code |-> <<>>]

NewPromise(tag, param) ==
    [tag |-> tag, param |-> param, st |-> "params", rid |-> 0, value |-> 0,
     error |-> NoError, reactions |-> <<>>]

Pending(pr) == pr.st \in {"params", "called"}

\* a binding that is written once and kept when _subscribe resumes again
BindKeepFirst(m, subId, tag, fn) ==
    IF subId \in DOMAIN m.subs
    THEN [m EXCEPT !.bound = @ \cup {<<fn, subId>>}]
    ELSE [m EXCEPT !.subs = Put(@, subId, [tag |-> tag, processFunc |-> fn]),
                   !.bound = @ \cup {<<fn, subId>>}]

\* _requests, _subs and _subIds are plain objects ({ }, lines 64-66): a
\* lookup obj[name] finds the object's own keys and, for a name that
\* Object.prototype defines ("constructor", "toString", "__proto__", ...),
\* the inherited value.  Subscription ids are written as integers; the one
\* inherited name of the model is written -1, which no backend id equals.
InheritedNames == {-1}

\* obj[name] is truthy: an own entry (every entry stored is an object) or
\* an inherited value
Truthy(obj, name) == name \in DOMAIN obj \/ name \in InheritedNames

\* _subscribe after the await: this._subs[subId] = { tag, processFunc }
Bind(m, subId, tag, fn) ==
    [m EXCEPT !.subs = Put(@, subId, [tag |-> tag, processFunc |-> fn]),
              !.bound = @ \cup {<<fn, subId>>}]

\* a teardown that drops every binding of the tag of subId
TeardownWholeTag(m, subId) ==
    IF subId \notin DOMAIN m.subs
    THEN m
    ELSE send([m EXCEPT !.subs =
                  Restrict(@, {y \in DOMAIN @ : @[y].tag # @[subId].tag})],
              "eth_unsubscribe", <<subId>>)

\* the callback _stopEvent attaches with subId.then(...)
Teardown(m, subId) ==
    IF ~Truthy(m.subs, subId)
    THEN m
    ELSE send([m EXCEPT !.subs = Remove(@, subId)], "eth_unsubscribe", <<subId>>)

React(m, subId, r) ==
    IF r.kind = "bind" THEN Bind(m, subId, r.tag, r.fn) ELSE Teardown(m, subId)

\* a _subscribe call whose await threw: its promise fails with the error
\* the awaited promise was rejected with; a then-callback is skipped
Fail(m, error, r) ==
    IF r.kind = "bind" THEN [m EXCEPT !.failed = @ \cup {<<r.fn, error>>}] ELSE m

\* ------------------------------------------------------ promise jobs
\* A job of the queue:
\*   "all"     Promise.all(param) of promise p is fulfilled; its
\*             then-callback becomes runnable
\*   "call"    the then-callback: this.send("eth_subscribe", param)
\*   "settle"  the promise of the eth_subscribe call settled with outcome
\*             and settles the subIdPromise p that adopted it
\*   "react"   reaction r of the settled promise p: the continuation of
\*             await subIdPromise, or the then-callback of _stopEvent
NoReaction == [kind |-> "none", tag |-> "", fn |-> 0]

Job(kind, p, r, outcome) == [kind |-> kind, p |-> p, r |-> r, outcome |-> outcome]

Enqueue(m, js) == [m EXCEPT !.jobs = @ \o js]

\* reaction jobs queued in the reverse of the order they were attached in
ReactionJobsNewestFirst(p, rs) ==
    [i \in 1..Len(rs) |-> Job("react", p, rs[Len(rs) + 1 - i], NoError)]

\* the reaction jobs of a promise that settles, in attachment order
ReactionJobs(p, rs) == [i \in 1..Len(rs) |-> Job("react", p, rs[i], NoError)]

\* a then that never runs a reaction attached after the promise settled
AttachPendingOnly(m, p, r) ==
    IF Pending(m.promises[p])
    THEN [m EXCEPT !.promises[p].reactions = Append(@, r)]
    ELSE m

\* await p / p.then(f): the reaction waits on p while p is pending; on a
\* settled p its job is queued at once, and runs after the caller returned
Attach(m, p, r) ==
    IF Pending(m.promises[p])
    THEN [m EXCEPT !.promises[p].reactions = Append(@, r)]
    ELSE Enqueue(m, <<Job("react", p, r, NoError)>>)

Fulfil(m, p, value) ==
    LET rs == m.promises[p].reactions
        m1 == [m EXCEPT !.promises[p].st = "resolved",
                        !.promises[p].value = value,
                        !.promises[p].reactions = <<>>]
    IN  Enqueue(m1, ReactionJobs(p, rs))

Reject(m, p, error) ==
    LET rs == m.promises[p].reactions
        m1 == [m EXCEPT !.promises[p].st = "rejected",
                        !.promises[p].error = error,
                        !.promises[p].reactions = <<>>]
    IN  Enqueue(m1, ReactionJobs(p, rs))

\* the then-callback of Promise.all(param): return this.send("eth_subscribe", param)
SubscribeCall(m, p) ==
    LET m1 == send(m, "eth_subscribe", m.promises[p].param.args)
    IN  [m1 EXCEPT !.promises[p].st = "called", !.promises[p].rid = m.NextId]

\* one job
RunJob(m, j) ==
    LET pr == m.promises[j.p]
    IN  IF j.kind = "all" THEN Enqueue(m, <<Job("call", j.p, NoReaction, NoError)>>)
        ELSE IF j.kind = "call" THEN SubscribeCall(m, j.p)
        ELSE IF j.kind = "settle"
        THEN IF j.outcome.kind = "resolve"
             THEN Fulfil(m, j.p, j.outcome.value)
             ELSE Reject(m, j.p, j.outcome)
        ELSE IF pr.st = "resolved" THEN React(m, pr.value, j.r)
        ELSE Fail(m, pr.error, j.r)

RECURSIVE RunJobs(_)
\* the job drain at the end of a task: the oldest job runs, the jobs it
\* queues go to the end, until the queue is empty
RunJobs(m) ==
    IF m.jobs = <<>> THEN m
    ELSE RunJobs(RunJob([m EXCEPT !.jobs = Tail(@)], Head(m.jobs)))

\* a _subscribe that never looks at the cached promise
_subscribeUncached(m, tag, param, fn) ==
    LET m1 == [m EXCEPT !.promises = Append(@, NewPromise(tag, param)),
                        !.subIds = Put(@, tag, Len(m.promises) + 1)]
        p == m1.subIds[tag]
        m2 == IF ~param.async
              THEN Enqueue(m1, <<Job("all", p, NoReaction, NoError)>>)
              ELSE m1
    IN  Attach(m2, p, [kind |-> "bind", tag |-> tag, fn |-> fn])

\* a _subscribe that replaces a cached promise that was rejected
_subscribeRetryFailed(m, tag, param, fn) ==
    LET fresh == \/ tag \notin DOMAIN m.subIds
                 \/ m.promises[m.subIds[tag]].st = "rejected"
        m1 == IF fresh
              THEN [m EXCEPT !.promises = Append(@, NewPromise(tag, param)),
                             !.subIds = Put(@, tag, Len(m.promises) + 1)]
              ELSE m
        p == m1.subIds[tag]
        m2 == IF fresh /\ ~param.async
              THEN Enqueue(m1, <<Job("all", p, NoReaction, NoError)>>)
              ELSE m1
    IN  Attach(m2, p, [kind |-> "bind", tag |-> tag, fn |-> fn])

\* _subscribe(tag, param, processFunc) up to its first await: a tag without
\* an entry gets a new promise, whose Promise.all(param) is fulfilled by a
\* job when every parameter is a plain value; the rest of the body waits on
\* the promise
_subscribe(m, tag, param, fn) ==
    LET fresh == tag \notin DOMAIN m.subIds
        m1 == IF fresh
              THEN [m EXCEPT !.promises = Append(@, NewPromise(tag, param)),
                             !.subIds = Put(@, tag, Len(m.promises) + 1)]
              ELSE m
        p == m1.subIds[tag]
        m2 == IF fresh /\ ~param.async
              THEN Enqueue(m1, <<Job("all", p, NoReaction, NoError)>>)
              ELSE m1
    IN  Attach(m2, p, [kind |-> "bind", tag |-> tag, fn |-> fn])

\* the param array _startEvent passes; async: Promise.all(param) waits for
\* this._getFilter(event.filter)
Param(e) ==
    IF EventType(e) = "filter"
    THEN [args |-> <<"logs", "filter">>, async |-> TRUE]
    ELSE [args |-> <<"newHeads">>, async |-> FALSE]

\* the events of type "tx" in this._events
TxEvents(events) == {e \in Events : EventType(e) = "tx" /\ events[e] > 0}

\* a _startEvent that leaves the receipt of a new watch to the next tick
_startEventNoFetch(m, e) ==
    LET fn == m.nSub + 1
        m1 == [m EXCEPT !.nSub = fn]
    IN  IF EventType(e) = "tx"
        THEN _subscribe(m1, "tx", Param(e), fn)
        ELSE _subscribe(m1, EventTag(e), Param(e), fn)

\* _startEvent(event); the processFunc it creates is named by the ordinal
\* of the _subscribe call
_startEvent(m, e) ==
    LET fn == m.nSub + 1
        m1 == [m EXCEPT !.nSub = fn]
    IN  IF EventType(e) = "tx"
        THEN _subscribe([m1 EXCEPT !.fetch = @ \cup {e}], "tx", Param(e), fn)
        ELSE _subscribe(m1, EventTag(e), Param(e), fn)

\* this.listenerCount(event.event)
listenerCount(m, e) == m.events[e]

\* a _stopEvent that drops the tag entry and attaches no teardown
_stopEventForget(m, e) ==
    LET interest == IF EventType(e) = "tx"
                    THEN TxEvents(m.events) # {}
                    ELSE m.events[e] # 0
        tag == IF EventType(e) = "tx" THEN "tx" ELSE EventTag(e)
    IN  IF interest \/ tag \notin DOMAIN m.subIds THEN m
        ELSE [m EXCEPT !.subIds = Remove(@, tag)]

\* a _stopEvent that attaches the teardown and keeps the tag entry
_stopEventKeepTag(m, e) ==
    LET interest == IF EventType(e) = "tx"
                    THEN TxEvents(m.events) # {}
                    ELSE m.events[e] # 0
        tag == IF EventType(e) = "tx" THEN "tx" ELSE EventTag(e)
    IN  IF interest \/ tag \notin DOMAIN m.subIds THEN m
        ELSE Attach(m, m.subIds[tag], [kind |-> "teardown", tag |-> tag, fn |-> 0])

\* a _stopEvent that tears down whether or not interest remains
_stopEventAlways(m, e) ==
    LET tag == IF EventType(e) = "tx" THEN "tx" ELSE EventTag(e)
    IN  IF tag \notin DOMAIN m.subIds THEN m
        ELSE LET p == m.subIds[tag]
             IN  Attach([m EXCEPT !.subIds = Remove(@, tag)], p,
                        [kind |-> "teardown", tag |-> tag, fn |-> 0])

\* a _stopEvent that asks only whether the removed watch itself is left
_stopEventOwnWatch(m, e) ==
    LET tag == IF EventType(e) = "tx" THEN "tx" ELSE EventTag(e)
    IN  IF m.events[e] # 0 THEN m
        ELSE IF tag \notin DOMAIN m.subIds THEN m
        ELSE LET p == m.subIds[tag]
             IN  Attach([m EXCEPT !.subIds = Remove(@, tag)], p,
                        [kind |-> "teardown", tag |-> tag, fn |-> 0])

\* _stopEvent(event)
_stopEvent(m, e) ==
    LET interest == IF EventType(e) = "tx"
                    THEN TxEvents(m.events) # {}
                    ELSE listenerCount(m, e) # 0
        tag == IF EventType(e) = "tx" THEN "tx" ELSE EventTag(e)
    IN  IF interest THEN m
        ELSE IF tag \notin DOMAIN m.subIds THEN m
        ELSE LET p == m.subIds[tag]
             IN  Attach([m EXCEPT !.subIds = Remove(@, tag)], p,
                        [kind |-> "teardown", tag |-> tag, fn |-> 0])

\* ---------------------------------------------------------- onopen
\* an open handler that flushes and leaves the gate closed
onopenNoLatch(m) ==
    LET keys == ObjectKeys(m.requests)
    IN  [m EXCEPT !.wire = @ \o [i \in 1..Len(keys) |->
                                   [payload |-> m.requests[keys[i]].payload,
                                    by |-> "onopen"]]]

\* this._wsReady = true; every entry of _requests is sent, in key order
onopen(m) ==
    LET keys == ObjectKeys(m.requests)
    IN  [m EXCEPT !.ready = TRUE,
                  !.wire = @ \o [i \in 1..Len(keys) |->
                                   [payload |-> m.requests[keys[i]].payload,
                                    by |-> "onopen"]]]

\* -------------------------------------------------------- onmessage
\* An inbound message after JSON.parse:
\*   id            <<>> or <<n>>
\*   result        <<>> or <<v>>
\*   error         "absent", "null" or "object"
\*   message, code the fields of the error object, each <<>> or <<x>>
\*   method        the method of a notification, "" if none
\*   subscription  params.subscription of a notification
ResponseMsg(id, result, error, message, code) ==
    [id |-> <<id>>, result |-> result, error |-> error, message |-> message,
     code |-> code, method |-> "", subscription |-> 0]

NotificationMsg(method, sid) ==
    [id |-> <<>>, result |-> <<>>, error |-> "absent", message |-> <<>>,
     code |-> <<>>, method |-> method, subscription |-> sid]

\* result.error.message || "unknown error"
ErrorMessage(msg) ==
    IF msg.message = <<>> \/ msg.message[1] = "" THEN "unknown error"
    ELSE msg.message[1]

\* a default that applies to an absent code only
ErrorCodeIfAbsent(msg) == msg.code

\* result.error.code || null (null is <<>>)
ErrorCode(msg) ==
    IF msg.code = <<>> \/ msg.code[1] = 0 THEN <<>> ELSE msg.code

\* what the completion callback is called with: (null, result.result), or
\* (error, undefined) where error has a code property only when built from
\* an error object
Outcome(msg) ==
    IF msg.result # <<>>
    THEN [kind |-> "resolve", value |-> msg.result[1], message |-> "",
          hasCode |-> FALSE, code |-> <<>>]
    ELSE IF msg.error = "object"
    THEN [kind |-> "reject", value |-> 0, message |-> ErrorMessage(msg),
          hasCode |-> TRUE, code |-> ErrorCode(msg)]
    ELSE [kind |-> "reject", value |-> 0, message |-> "unknown error",
          hasCode |-> FALSE, code |-> <<>>]

\* a correlator that hands a response to the oldest pending call
RequestOldest(requests, id) ==
    requests[CHOOSE k \in DOMAIN requests : \A j \in DOMAIN requests : k <= j]

\* const request = this._requests[id]
RequestFor(requests, id) == requests[id]

\* the subIdPromise that adopted the promise of call rid
PromiseOfCall(m, rid) ==
    {p \in 1..Len(m.promises) :
        m.promises[p].st = "called" /\ m.promises[p].rid = rid}

\* callback(error, result) of the call named cb: resolve or reject of that
\* call's promise; the subIdPromise that adopted it is settled by a job
callback(m, cb, outcome) ==
    LET m1 == [m EXCEPT !.completed = @ \cup {[call |-> cb, outcome |-> outcome]},
                        !.invoked[<<m.self, cb>>] = @ + 1]
        ps == PromiseOfCall(m, cb)
    IN  IF ps = {} THEN m1
        ELSE Enqueue(m1, <<Job("settle", CHOOSE q \in ps : TRUE, NoReaction, outcome)>>)

\* sub.processFunc(result.params.result): the "tx" closure fetches the
\* receipt of every transaction event, the others emit
processFunc(m, sub) ==
    [m EXCEPT !.dispatch = @ \cup {sub.processFunc},
              !.fetch = IF sub.tag = "tx" THEN @ \cup TxEvents(m.events) ELSE @]

\* a handler that leaves the matched request in the pending map
onmessageKeepRequest(m, msg) ==
    IF msg.id # <<>>
    THEN LET id == msg.id[1]
         IN  IF id \notin DOMAIN m.requests
             THEN [m EXCEPT !.threw = TRUE]
             ELSE callback(m, RequestFor(m.requests, id).callback, Outcome(msg))
    ELSE IF msg.method = "eth_subscription"
    THEN IF msg.subscription \in DOMAIN m.subs
         THEN processFunc(m, m.subs[msg.subscription])
         ELSE IF Truthy(m.subs, msg.subscription)
         \* sub is a value inherited from Object.prototype: it is truthy and
         \* has no processFunc, so sub.processFunc(...) throws a TypeError
         THEN [m EXCEPT !.threw = TRUE]
         ELSE m
    ELSE m

\* this._websocket.onmessage
onmessage(m, msg) ==
    IF msg.id # <<>>
    THEN LET id == msg.id[1]
         IN  IF id \notin DOMAIN m.requests
             \* request is undefined: request.callback throws a TypeError
             THEN [m EXCEPT !.threw = TRUE]
             ELSE callback([m EXCEPT !.requests = Remove(@, id)],
                           RequestFor(m.requests, id).callback, Outcome(msg))
    ELSE IF msg.method = "eth_subscription"
    THEN IF msg.subscription \in DOMAIN m.subs
         THEN processFunc(m, m.subs[msg.subscription])
         ELSE IF Truthy(m.subs, msg.subscription)
         \* sub is a value inherited from Object.prototype: it is truthy and
         \* has no processFunc, so sub.processFunc(...) throws a TypeError
         THEN [m EXCEPT !.threw = TRUE]
         ELSE m
    ELSE m

\* ------------------------------------------------------------- state
Empty == [x \in {} |-> x]

NoMsg == NotificationMsg("", 0)

Init ==
    /\ NextId = 1
    /\ _wsReady = FALSE
    /\ _requests = Empty
    /\ _subIds = Empty
    /\ _subs = Empty
    /\ promises = <<>>
    /\ nSub = 0
    /\ _events = [e \in Events |-> 0]
    /\ socketOpen = FALSE
    /\ wire = <<>>
    /\ invoked = Empty
    /\ issued = <<>>
    /\ peer = Empty
    /\ jobs = <<>>
    /\ last = Effect("init", NoMsg, "", Mach)

\* ----------------------------------------------------------- actions
\* provider.send(method, params) called by the method surface
Call ==
    LET m == send(Mach, "eth_blockNumber", <<>>)
    IN  /\ Commit(m)
        /\ last' = Effect("send", NoMsg, "", m)
        /\ UNCHANGED <<_wsReady, socketOpen, peer>>

\* send() on another WebSocketProvider of the same process: it has its own
\* _requests and shares NextId
PeerCall ==
    LET m == send([Mach EXCEPT !.requests = peer, !.ready = FALSE, !.self = 2],
                  "eth_blockNumber", <<>>)
    IN  /\ Cardinality(DOMAIN peer) < MaxPeer
        /\ m.NextId <= MaxId + 1
        /\ NextId' = m.NextId
        /\ peer' = m.requests
        /\ issued' = m.issued
        /\ invoked' = m.invoked
        /\ last' = Effect("peer", NoMsg, "", m)
        /\ UNCHANGED <<_wsReady, _requests, _subIds, _subs, promises, nSub,
                       _events, socketOpen, wire, jobs>>

\* the transport raises open, once, in a task of its own
Open ==
    LET m == onopen(Mach)
    IN  /\ ~socketOpen
        /\ jobs = <<>>
        /\ socketOpen' = TRUE
        /\ _wsReady' = m.ready
        /\ Commit(m)
        /\ last' = Effect("open", NoMsg, "", m)
        /\ UNCHANGED peer

\* The backend names the subscription of the eth_subscribe call with id rid
\* by a fresh identifier, written rid.
SubIdOf(rid) == rid

\* the result values the backend may answer the call with id `id` with
ResultValues(id) ==
    IF id \in DOMAIN _requests /\ _requests[id].payload.method = "eth_subscribe"
    THEN {SubIdOf(id)}
    ELSE Results

\* one of them
PlainResult(id) == CHOOSE v \in ResultValues(id) : \A w \in ResultValues(id) : v <= w

SetMax(S) == CHOOSE x \in S : \A y \in S : y <= x

\* the ids of this provider's calls whose response was processed
Answered == {i \in 1..(NextId - 1) : <<1, i>> \in DOMAIN invoked /\ i \notin DOMAIN _requests}

\* The ids an inbound message may carry: every pending one, and of those
\* that match no pending call the latest answered one and one never issued
\* (the handler does not read the id of a message it cannot match).
Deliverable ==
    DOMAIN _requests \cup {NextId}
        \cup (IF Answered = {} THEN {} ELSE {SetMax(Answered)})

\* every shape of response the transport may deliver for id `id`
AllResponses(id) ==
       {ResponseMsg(id, <<v>>, "absent", <<>>, <<>>) : v \in ResultValues(id)}
  \cup {ResponseMsg(id, <<>>, "object", ms, c) : ms \in Messages, c \in Codes}
  \cup {ResponseMsg(id, <<>>, e, <<>>, <<>>) : e \in {"absent", "null"}}

\* a result, or a well-formed JSON-RPC error
PlainResponses(id) ==
    {ResponseMsg(id, <<PlainResult(id)>>, "absent", <<>>, <<>>),
     ResponseMsg(id, <<>>, "object", <<"bad">>, <<-32000>>)}

\* The task of a message event: onmessage runs on the message, then the
\* jobs it made runnable.  A WebSocket delivers messages only after it has
\* raised open.
Deliver(op, msg) ==
    LET m == RunJobs(onmessage(Mach, msg))
    IN  /\ socketOpen
        /\ jobs = <<>>
        /\ Commit(m)
        /\ last' = Effect(op, msg, "", m)
        /\ UNCHANGED <<_wsReady, socketOpen, peer>>

\* the transport delivers the response to a pending call
Response(id) ==
    /\ id \in DOMAIN _requests
    /\ \E msg \in PlainResponses(id) : Deliver("response", msg)

\* the transport delivers a message that carries an id, of any shape
ResponseAny(id) ==
    /\ id \in Deliverable
    /\ \E msg \in AllResponses(id) : Deliver("response", msg)

\* the subscription ids that were bound and are bound no more
TornDown ==
    {promises[p].value : p \in {q \in 1..Len(promises) : promises[q].st = "resolved"}}
        \ DOMAIN _subs

\* The subscription names a notification may carry: every bound id, the
\* latest id torn down, an id the backend never assigned, and a name that
\* was never bound but that every plain object inherits.
Nameable ==
    DOMAIN _subs \cup {0} \cup InheritedNames
        \cup (IF TornDown = {} THEN {} ELSE {SetMax(TornDown)})

\* the transport delivers a subscription notification
Push(sid) ==
    /\ sid \in Nameable
    /\ Deliver("push", NotificationMsg("eth_subscription", sid))

\* the transport delivers a message that is neither
Other == Deliver("other", NotificationMsg("other", 0))

\* provider.on(event, listener): the base provider records the listener in
\* _events and calls _startEvent; the jobs of _subscribe stay queued
On(e) ==
    LET m == _startEvent([Mach EXCEPT !.events[e] = @ + 1], e)
    IN  /\ _events[e] < MaxListeners
        /\ nSub < MaxSubscribe
        /\ Commit(m)
        /\ last' = Effect("on", NoMsg, e, m)
        /\ UNCHANGED <<_wsReady, socketOpen, peer>>

\* provider.off(event, listener): the base provider drops the listener from
\* _events and calls _stopEvent; the teardown of a settled promise stays
\* queued
Off(e) ==
    LET m == _stopEvent([Mach EXCEPT !.events[e] = @ - 1], e)
    IN  /\ _events[e] > 0
        /\ Commit(m)
        /\ last' = Effect("off", NoMsg, e, m)
        /\ UNCHANGED <<_wsReady, socketOpen, peer>>

\* this._getFilter(event.filter) of a subscription whose parameters were
\* still being computed settles, in a task of its own: fulfilled, it
\* fulfils Promise.all(param), whose then-callback calls send; rejected,
\* the subIdPromise is rejected and nothing is sent
ParamsSettle(p, ok) ==
    LET j == IF ok THEN Job("all", p, NoReaction, NoError)
             ELSE Job("settle", p, NoReaction, ParamsError)
        m == RunJobs(Enqueue(Mach, <<j>>))
    IN  /\ p \in 1..Len(promises)
        /\ promises[p].st = "params"
        /\ promises[p].param.async
        /\ jobs = <<>>
        /\ Commit(m)
        /\ last' = Effect("params", NoMsg, promises[p].tag, m)
        /\ UNCHANGED <<_wsReady, socketOpen, peer>>

\* the synchronous code of the task that called on, off or send has ended:
\* the queued jobs run
Drain ==
    LET m == RunJobs(Mach)
    IN  /\ jobs # <<>>
        /\ Commit(m)
        /\ last' = Effect("drain", NoMsg, "", m)
        /\ UNCHANGED <<_wsReady, socketOpen, peer>>

\* The subscription manager over the correlator and the gate: listeners come
\* and go, the transport opens, answers and notifies.
Next ==
    \/ Open
    \/ \E id \in MsgIds : Response(id)
    \/ \E sid \in (0..MaxId) \cup InheritedNames : Push(sid)
    \/ \E e \in Events : On(e)
    \/ \E e \in Events : Off(e)
    \/ \E p \in 1..MaxSubscribe, ok \in BOOLEAN : ParamsSettle(p, ok)
    \/ Drain

Spec == Init /\ [][Next]_vars

\* The correlator and the gate under direct calls, with a second provider
\* instance and every shape of inbound message that carries an id.
NextRpc ==
    \/ Call
    \/ PeerCall
    \/ Open
    \/ \E id \in MsgIds : ResponseAny(id)
    \/ Other

SpecRpc == Init /\ [][NextRpc]_vars

\* ------------------------------------------------ two messages, one tick
\* The ws transport parses every frame of a received chunk in one loop and
\* raises message for each before it returns, so onmessage can run for two
\* messages in one task, with no promise job in between.

\* the answer to the eth_subscribe call id and the first notification of
\* the new subscription arrive in one chunk: the handler runs for both, then
\* the promise jobs
Burst(id) ==
    LET resp == ResponseMsg(id, <<PlainResult(id)>>, "absent", <<>>, <<>>)
        m1 == onmessage(Mach, resp)
        m2 == onmessage(m1, NotificationMsg("eth_subscription", PlainResult(id)))
        m3 == RunJobs(m2)
    IN  /\ socketOpen
        /\ jobs = <<>>
        /\ id \in DOMAIN _requests
        /\ _requests[id].payload.method = "eth_subscribe"
        /\ Commit(m3)
        /\ last' = Effect("burst", resp, "", m3)
        /\ UNCHANGED <<_wsReady, socketOpen, peer>>

\* The subscription manager under a transport that may raise several
\* messages in one tick.
NextBurst ==
    \/ Open
    \/ \E id \in MsgIds : Response(id)
    \/ \E id \in MsgIds : Burst(id)
    \/ \E sid \in (0..MaxId) \cup InheritedNames : Push(sid)
    \/ \E e \in Events : On(e)
    \/ \E e \in Events : Off(e)
    \/ \E p \in 1..MaxSubscribe, ok \in BOOLEAN : ParamsSettle(p, ok)
    \/ Drain

SpecBurst == Init /\ [][NextBurst]_vars

\* ============================================================ claims
\* the id an inbound response carried
MsgId(l) == l.msg.id[1]

\* a step in which the handler processed a message carrying an id
ResponseStep == last'.op = "response"

\* the calls of this provider, in issuance order
OwnCalls == SelectSeq(issued, LAMBDA c : c.self = 1)

\* ---- C1
\* C1: a response carrying id X and a result resolves exactly the future of
\* the call that was given id X, with that result value; it removes entry X
\* of the pending map and leaves every other pending call pending, with the
\* same callback and payload and its callback not invoked.
C1_MatchedById ==
    [][(ResponseStep /\ MsgId(last') \in DOMAIN _requests /\ last'.msg.result # <<>>)
        => /\ last'.completed =
                {[call |-> MsgId(last'),
                  outcome |-> [kind |-> "resolve", value |-> last'.msg.result[1],
                               message |-> "", hasCode |-> FALSE, code |-> <<>>]]}
           /\ MsgId(last') \notin DOMAIN _requests'
           /\ \A j \in DOMAIN _requests \ {MsgId(last')} :
                 /\ j \in DOMAIN _requests'
                 /\ _requests'[j] = _requests[j]
                 /\ invoked'[<<1, j>>] = invoked[<<1, j>>]
           /\ ~last'.threw]_vars

\* a result was delivered for a call while an older call was still pending
C1_Witness ==
    /\ last.op = "response"
    /\ last.msg.result # <<>>
    /\ last.completed # {}
    /\ \E j \in DOMAIN _requests : j < MsgId(last) /\ invoked[<<1, j>>] = 0

\* ---- C2
\* the completion of the call a response matched, if it completed one
Completion(l) == CHOOSE c \in l.completed : TRUE

\* a response that matches a pending call and carries no result field
NoResultStep ==
    ResponseStep /\ MsgId(last') \in DOMAIN _requests /\ last'.msg.result = <<>>

\* C2 as stated: the error carries the supplied message and the supplied
\* code whenever they are supplied, the defaults only when the field is
\* absent; without an error object the message is "unknown error".
C2_AsStated ==
    [][NoResultStep
        => /\ Cardinality(last'.completed) = 1
           /\ Completion(last').outcome.kind = "reject"
           /\ IF last'.msg.error = "object"
              THEN /\ Completion(last').outcome.message =
                        (IF last'.msg.message = <<>> THEN "unknown error"
                         ELSE last'.msg.message[1])
                   /\ Completion(last').outcome.code = last'.msg.code
              ELSE Completion(last').outcome.message = "unknown error"]_vars

\* C2 (amended): the future of the matched call fails; with an error object
\* the message is the supplied one unless it is absent or empty, and the
\* code is the supplied one unless it is absent or zero; the defaults are
\* "unknown error" and null.  Without an error object (absent or null) the
\* error is the generic "unknown error" with no code.
C2_FalsyDefaults ==
    [][NoResultStep
        => /\ Cardinality(last'.completed) = 1
           /\ Completion(last').call = MsgId(last')
           /\ Completion(last').outcome.kind = "reject"
           /\ IF last'.msg.error = "object"
              THEN /\ Completion(last').outcome.message =
                        (IF last'.msg.message \in {<<>>, <<"">>} THEN "unknown error"
                         ELSE last'.msg.message[1])
                   /\ Completion(last').outcome.code =
                        (IF last'.msg.code \in {<<>>, <<0>>} THEN <<>>
                         ELSE last'.msg.code)
                   /\ Completion(last').outcome.hasCode
              ELSE /\ Completion(last').outcome.message = "unknown error"
                   /\ ~Completion(last').outcome.hasCode]_vars

\* an error object with code 0 and a message was delivered for a pending call
C2_Witness ==
    /\ last.op = "response"
    /\ last.msg.error = "object"
    /\ last.msg.code = <<0>>
    /\ last.msg.message = <<"bad">>
    /\ \E c \in last.completed :
          c.outcome.message = "bad" /\ c.outcome.code = <<>>

\* ---- C3
\* C3: a message whose id matches no pending call is dropped: the handler
\* raises no error, invokes no completion callback and leaves the
\* pending-call, tag and binding maps unchanged.
C3_UnmatchedDropped ==
    [][(ResponseStep /\ MsgId(last') \notin DOMAIN _requests)
        => /\ ~last'.threw
           /\ last'.completed = {}
           /\ UNCHANGED <<_requests, _subIds, _subs>>]_vars

\* ---- C4
\* the ids send() assigned, in issuance order
IssuedIds == [i \in 1..Len(issued) |-> issued[i].payload.id]

\* C4: the ids given out by send, over all providers of the process, are
\* strictly increasing in issuance order, hence pairwise distinct and never
\* reused; every pending entry is stored under the id of its own payload
\* and no id is pending in two providers.
C4_UniqueIds ==
    /\ \A i, j \in 1..Len(issued) : i < j => IssuedIds[i] < IssuedIds[j]
    /\ \A k \in DOMAIN _requests : _requests[k].payload.id = k
    /\ \A k \in DOMAIN peer : peer[k].payload.id = k
    /\ DOMAIN _requests \cap DOMAIN peer = {}

\* both providers issued calls, one call completed and a later call was made
C4_Witness ==
    /\ Len(issued) >= 3
    /\ \E i, j \in 1..Len(issued) : issued[i].self = 1 /\ issued[j].self = 2
    /\ \E i \in 1..Len(issued) :
          /\ issued[i].self = 1
          /\ invoked[<<1, IssuedIds[i]>>] = 1
          /\ \E j \in (i + 1)..Len(issued) : issued[j].self = 1

\* ---- C5
\* C5: the transport sees the calls buffered before open first, in issuance
\* order, then the calls made after open in their issuance order: no
\* payload sent by send precedes one sent by the flush, ids ascend along the
\* wire, and once ready the wire is exactly this provider's calls in order.
C5_FlushOrder ==
    /\ \A i, j \in 1..Len(wire) :
          i < j => /\ wire[i].payload.id < wire[j].payload.id
                   /\ ~(wire[i].by = "send" /\ wire[j].by = "onopen")
    /\ _wsReady =>
          [i \in 1..Len(wire) |-> wire[i].payload]
            = [i \in 1..Len(OwnCalls) |-> OwnCalls[i].payload]

\* two calls were flushed by onopen and a third was sent after it
C5_Witness ==
    /\ Len(wire) = 3
    /\ wire[1].by = "onopen" /\ wire[2].by = "onopen" /\ wire[3].by = "send"

\* ---- C6
\* how often the payload with id k was handed to the transport
TimesSent(k) == Cardinality({i \in 1..Len(wire) : wire[i].payload.id = k})

\* C6: nothing is handed to the transport while the gate is not ready; once
\* it is ready every call issued so far was handed over exactly once (by the
\* flush if issued before open, by send otherwise); the ready flag never
\* goes back to false.
C6_ExactlyOnce ==
    /\ [](~_wsReady => wire = <<>>)
    /\ [](_wsReady => \A i \in 1..Len(OwnCalls) : TimesSent(OwnCalls[i].payload.id) = 1)
    /\ [](\A i \in 1..Len(wire) : TimesSent(wire[i].payload.id) = 1)
    /\ [][_wsReady => _wsReady']_vars

\* a call buffered before open and a call made after it were each sent once,
\* and a response was processed since
C6_Witness ==
    /\ _wsReady
    /\ \E i, j \in 1..Len(wire) : wire[i].by = "onopen" /\ wire[j].by = "send"
    /\ last.op = "response"

\* ---- C7
Promises == 1..Len(promises)

\* the positions in issued of the calls of `method`
CallsOf(method) == {i \in 1..Len(issued) : issued[i].payload.method = method}

\* the _subscribe continuations waiting on promise p, each with the
\* subscription id v it resumes with
Waiting(p, v) ==
    {<<promises[p].reactions[i].fn, v>> :
        i \in {k \in 1..Len(promises[p].reactions) :
                   promises[p].reactions[k].kind = "bind"}}

\* the jobs of promise p of one of the kinds that are queued
JobsOf(p, kinds) ==
    {i \in 1..Len(jobs) : jobs[i].p = p /\ jobs[i].kind \in kinds}

\* no job is queued: the state between two tasks
AtRest == jobs = <<>>

\* C7: a _subscribe for a tag whose promise is cached and pending makes no
\* promise, no call and no job, it waits on the cached promise; every
\* promise has at most one eth_subscribe call: with plain parameters the
\* call is made or the one job that makes it is queued, never both, and the
\* call is made once the jobs of the registering tick have run; a resolved
\* promise has its call; when the answer carries subscription id X every
\* waiting caller resumes with X.
C7_Dedup ==
    /\ [](\A p \in Promises :
            /\ Cardinality({i \in CallsOf("eth_subscribe") :
                              issued[i].payload.id = promises[p].rid})
                 = (IF promises[p].rid = 0 THEN 0 ELSE 1)
            /\ promises[p].st = "resolved" => promises[p].rid # 0
            /\ ~promises[p].param.async
                 => Cardinality(JobsOf(p, {"all", "call"}))
                      = (IF promises[p].rid = 0 THEN 1 ELSE 0)
            /\ promises[p].param.async => JobsOf(p, {"all", "call"}) = {})
    /\ [](Cardinality(CallsOf("eth_subscribe"))
            = Cardinality({p \in Promises : promises[p].rid # 0}))
    /\ [][\A e \in Events :
            (/\ last'.op = "on" /\ last'.event = e
             /\ SubscribeTag(e) \in DOMAIN _subIds
             /\ Pending(promises[_subIds[SubscribeTag(e)]]))
            => /\ Len(promises') = Len(promises)
               /\ _subIds' = _subIds
               /\ jobs' = jobs
               /\ CallsOf("eth_subscribe")' = CallsOf("eth_subscribe")
               /\ Waiting(_subIds[SubscribeTag(e)], 0)'
                    = Waiting(_subIds[SubscribeTag(e)], 0) \cup {<<nSub', 0>>}
               /\ nSub' = nSub + 1]_vars
    /\ [][\A p \in Promises :
            (/\ ResponseStep /\ last'.msg.result # <<>>
             /\ promises[p].st = "called"
             /\ MsgId(last') = promises[p].rid
             /\ MsgId(last') \in DOMAIN _requests)
            => /\ last'.bound = Waiting(p, last'.msg.result[1])
               /\ promises'[p].st = "resolved"
               /\ promises'[p].value = last'.msg.result[1]]_vars

\* two callers shared one eth_subscribe call and resumed with the same id
C7_Witness ==
    /\ last.op = "response"
    /\ Cardinality(last.bound) = 2
    /\ \E x \in 1..MaxId : \A b \in last.bound : b[2] = x
    /\ Cardinality(CallsOf("eth_subscribe")) = 1

\* ---- C8
Tags == {SubscribeTag(e) : e \in Events}

\* the eth_subscribe call of promise p was issued and has no response yet
Unanswered(p) == promises[p].st = "called" /\ promises[p].rid \in DOMAIN _requests

HasTeardown(p) ==
    \E i \in 1..Len(promises[p].reactions) : promises[p].reactions[i].kind = "teardown"

\* C8 as stated: at most one eth_subscribe request for a tag is in flight.
C8_AsStated ==
    \A t \in Tags :
        Cardinality({p \in Promises : promises[p].tag = t /\ Unanswered(p)}) <= 1

\* C8 (amended): of the unanswered eth_subscribe requests for a tag at most
\* one belongs to a subscription that was not torn down, and it is the one
\* whose promise the tag map holds; every other one has its teardown
\* attached and its tag entry gone or replaced.
C8_OneLivePerTag ==
    /\ \A t \in Tags :
          Cardinality({p \in Promises :
              promises[p].tag = t /\ Unanswered(p) /\ ~HasTeardown(p)}) <= 1
    /\ \A p \in Promises :
          Unanswered(p) =>
             (HasTeardown(p) <=>
                ~(promises[p].tag \in DOMAIN _subIds /\ _subIds[promises[p].tag] = p))

\* two eth_subscribe requests for one tag are on the wire and unanswered:
\* the first is torn down, the second is the cached one
C8_Witness ==
    \E p, q \in Promises :
        /\ p < q /\ promises[p].tag = promises[q].tag
        /\ Unanswered(p) /\ Unanswered(q)
        /\ HasTeardown(p) /\ ~HasTeardown(q)
        /\ \E i, j \in 1..Len(wire) :
              /\ wire[i].payload.id = promises[p].rid
              /\ wire[j].payload.id = promises[q].rid

\* ---- C9
\* how many eth_unsubscribe calls were made for subscription id x
Unsubs(x) ==
    Cardinality({i \in CallsOf("eth_unsubscribe") : issued[i].payload.params = <<x>>})

\* the listeners interested in tag t
Interest(t) == {e \in Events : SubscribeTag(e) = t /\ _events[e] > 0}

\* the subscription of promise p was released: no listener is left for its
\* tag, or the tag has been subscribed anew since
Released(p) ==
    \/ Interest(promises[p].tag) = {}
    \/ promises[p].tag \notin DOMAIN _subIds
    \/ _subIds[promises[p].tag] # p

\* the teardown of promise p is queued as a job
TeardownQueued(p) ==
    \E i \in JobsOf(p, {"react"}) : jobs[i].r.kind = "teardown"

\* C9: eth_unsubscribe is sent at most once per subscription id; when the
\* subscribe call of a released subscription has resolved to X, exactly one
\* eth_unsubscribe for X was sent or the one job that sends it is queued,
\* never both, and between tasks it was sent.
C9_UnsubscribeOnce ==
    /\ \A x \in 1..MaxId : Unsubs(x) <= 1
    /\ \A p \in Promises :
          (promises[p].st = "resolved" /\ Released(p))
             => /\ Unsubs(promises[p].value) = (IF TeardownQueued(p) THEN 0 ELSE 1)
                /\ Cardinality({i \in JobsOf(p, {"react"}) :
                                   jobs[i].r.kind = "teardown"}) <= 1
                /\ AtRest => Unsubs(promises[p].value) = 1

\* the last listener left before the backend answered, the answer came and
\* the one eth_unsubscribe went out
C9_Witness ==
    /\ last.op = "response"
    /\ \E p \in Promises :
          /\ promises[p].st = "resolved"
          /\ Interest(promises[p].tag) = {}
          /\ Unsubs(promises[p].value) = 1

\* ---- C10
\* C10: a notification naming a subscription id that has no binding, or one
\* for which eth_unsubscribe was sent, invokes no dispatch function, starts
\* no fetch, raises no error and changes none of the three maps.
C10_UnroutedPushDropped ==
    [][(/\ last'.op = "push"
        /\ \/ last'.msg.subscription \notin DOMAIN _subs
           \/ Unsubs(last'.msg.subscription) > 0)
        => /\ last'.dispatch = {}
           /\ last'.fetch = {}
           /\ ~last'.threw
           /\ UNCHANGED <<_requests, _subIds, _subs>>]_vars

\* ---- C11
\* a step in which _stopEvent ran for an event whose tag keeps a listener
StopWithInterest ==
    /\ last'.op = "off"
    /\ \E t \in Tags : t = SubscribeTag(last'.event) /\ Interest(t)' # {}

\* a step in which _stopEvent ran for tag t and left it without a listener
StopWithoutInterest(t) ==
    last'.op = "off" /\ SubscribeTag(last'.event) = t /\ Interest(t)' = {}

\* the teardown of promise p waits on the promise or is queued as a job
TeardownAttached(p) == HasTeardown(p) \/ TeardownQueued(p)

\* C11: _stopEvent run while a listener remains for the tag (another
\* listener of the event, or for a transaction event any transaction watch)
\* changes neither the tag map nor the binding map, attaches no teardown,
\* queues no job and makes no call; a teardown is attached only by a
\* _stopEvent that leaves the tag without a listener, and an
\* eth_unsubscribe for X is sent only by such a teardown.
C11_NoOpWhileInterest ==
    /\ [][StopWithInterest
            => UNCHANGED <<_subIds, _subs, promises, jobs, issued, wire,
                           _requests, NextId>>]_vars
    /\ [][\A p \in Promises :
            (~TeardownAttached(p) /\ TeardownAttached(p)')
               => StopWithoutInterest(promises[p].tag)]_vars
    /\ [][\A x \in 1..MaxId :
            Unsubs(x)' > Unsubs(x)
               => \E p \in Promises :
                     /\ promises'[p].st = "resolved" /\ promises'[p].value = x
                     /\ TeardownAttached(p)
                     /\ ~TeardownAttached(p)']_vars

\* one of two transaction watches was removed while the shared subscription
\* was bound, and the binding and the tag entry are still there
C11_Witness ==
    /\ last.op = "off" /\ last.event = "tx1"
    /\ _events["tx2"] > 0
    /\ "tx" \in DOMAIN _subIds
    /\ \E x \in DOMAIN _subs : _subs[x].tag = "tx"

\* ---- C12
\* the promises of the shared transaction subscription that resolved to x
TxPromises(x) ==
    {p \in Promises : /\ promises[p].tag = "tx"
                      /\ promises[p].st = "resolved" /\ promises[p].value = x}

\* a step that removed the "tx" tag entry
TxTagRemoved == "tx" \in DOMAIN _subIds /\ "tx" \notin DOMAIN _subIds'

\* a step that sent an eth_unsubscribe for the shared subscription x
TxUnsubscribed(x) == Unsubs(x)' > Unsubs(x) /\ TxPromises(x)' # {}

\* C12 as stated: the "tx" tag entry is never removed, and no
\* eth_unsubscribe for a shared subscription is ever issued, while a
\* transaction event is registered.
C12_AsStated ==
    [][(TxTagRemoved \/ \E x \in 1..MaxId : TxUnsubscribed(x))
         => TxEvents(_events') = {}]_vars

\* C12 (amended): the "tx" tag entry is removed only by the removal of the
\* last transaction watch; while a transaction watch is registered the tag
\* entry exists and no eth_unsubscribe was sent for the subscription it
\* caches nor is its teardown attached; an eth_unsubscribe issued while a
\* watch is registered is for an earlier shared subscription, all of whose
\* watches had been removed, and the watch is served by a subscription made
\* after it.
C12_TxTeardownAtZero ==
    /\ [][TxTagRemoved => (last'.op = "off" /\ TxEvents(_events') = {})]_vars
    /\ [](TxEvents(_events) # {}
            => /\ "tx" \in DOMAIN _subIds
               /\ promises[_subIds["tx"]].tag = "tx"
               /\ ~TeardownAttached(_subIds["tx"])
               /\ promises[_subIds["tx"]].st = "resolved"
                    => Unsubs(promises[_subIds["tx"]].value) = 0)
    /\ [][\A x \in 1..MaxId :
            (TxUnsubscribed(x) /\ TxEvents(_events') # {})
               => \A p \in TxPromises(x)' :
                     /\ TeardownAttached(p)
                     /\ "tx" \in DOMAIN _subIds /\ _subIds["tx"] > p
                     /\ UNCHANGED _subIds]_vars

\* the only watch was removed and another registered before the backend
\* answered the first eth_subscribe; the answer came and the first shared
\* subscription was unsubscribed while the second watch is registered
C12_Witness ==
    /\ last.op = "response"
    /\ TxEvents(_events) # {}
    /\ \E x \in 1..MaxId :
          /\ Unsubs(x) = 1
          /\ TxPromises(x) # {}
          /\ \A p \in TxPromises(x) : _subIds["tx"] # p

\* ---- C13
\* a step that registered the transaction watch e
WatchStep(e) == last'.op = "on" /\ last'.event = e /\ EventType(e) = "tx"

\* the eth_subscribe calls made for the shared "tx" tag
TxSubscribeCalls ==
    {i \in CallsOf("eth_subscribe") :
        \E p \in Promises : promises[p].tag = "tx" /\ promises[p].rid = issued[i].payload.id}

\* the promises made for the shared "tx" tag
TxTagPromises == {p \in Promises : promises[p].tag = "tx"}

\* C13: registering a transaction watch starts one direct receipt fetch, for
\* that watch, before on returns; the first watch makes the promise of the
\* shared "tx" tag and queues the one job that leads to its eth_subscribe
\* call, a watch registered while another is registered makes no promise
\* and queues no such job, so N watches with none removed share one call;
\* every promise of the tag has exactly one call, made or still queued, and
\* the call is made with ["newHeads"] when the jobs run.
C13_OneSubscriptionNFetches ==
    /\ [][\A e \in Events :
            WatchStep(e)
               => /\ last'.fetch = {e}
                  /\ issued' = issued
                  /\ IF TxEvents(_events) = {}
                     THEN /\ Len(promises') = Len(promises) + 1
                          /\ _subIds'["tx"] = Len(promises')
                          /\ jobs' = Append(jobs, Job("all", Len(promises'),
                                                      NoReaction, NoError))
                     ELSE /\ Len(promises') = Len(promises)
                          /\ UNCHANGED _subIds
                          /\ \A i \in 1..Len(jobs') :
                                jobs'[i].kind \in {"all", "call"}
                                  => (i <= Len(jobs) /\ jobs'[i] = jobs[i])]_vars
    /\ [][TxSubscribeCalls' # TxSubscribeCalls
            => /\ last'.op = "drain"
               /\ \A i \in TxSubscribeCalls' \ TxSubscribeCalls :
                     issued'[i].payload.params = <<"newHeads">>]_vars
    /\ [](Cardinality(TxSubscribeCalls)
              + Cardinality({p \in TxTagPromises : JobsOf(p, {"all", "call"}) # {}})
            = Cardinality(TxTagPromises))
    /\ [](TxEvents(_events) = {} => "tx" \notin DOMAIN _subIds)

\* two watches for distinct hashes are registered, the second just now with
\* its own receipt fetch, and one eth_subscribe call was made in all
C13_Witness ==
    /\ last.op = "on" /\ last.event = "tx2" /\ last.fetch = {"tx2"}
    /\ _events["tx1"] = 1 /\ _events["tx2"] = 1
    /\ nSub = 2
    /\ Cardinality(TxSubscribeCalls) = 1
    /\ Cardinality(CallsOf("eth_subscribe")) = 1

\* ---- C14
\* a step in which the handler processed a message that matches no pending
\* call: a response whose id is not pending, or a message without an id
UnmatchedStep ==
    \/ last'.op = "other"
    \/ ResponseStep /\ MsgId(last') \notin DOMAIN _requests

\* C14: the completion callback of a call runs at most once; it has run
\* exactly once for every call whose response was processed and not at all
\* for a pending call; the response that matches a pending call invokes that
\* call's callback and no other, and a later message (a second response with
\* the same id included) invokes no callback.
C14_CompletedOnce ==
    /\ [](\A k \in DOMAIN invoked : invoked[k] <= 1)
    /\ [](\A i \in 1..Len(OwnCalls) :
            invoked[<<1, OwnCalls[i].payload.id>>]
              = (IF OwnCalls[i].payload.id \in DOMAIN _requests THEN 0 ELSE 1))
    /\ [][(ResponseStep /\ MsgId(last') \in DOMAIN _requests)
            => /\ Cardinality(last'.completed) = 1
               /\ \A c \in last'.completed : c.call = MsgId(last')
               /\ invoked[<<1, MsgId(last')>>] = 0
               /\ invoked'[<<1, MsgId(last')>>] = 1]_vars
    /\ [][UnmatchedStep => (last'.completed = {} /\ invoked' = invoked)]_vars
    /\ [][\A k \in DOMAIN invoked : invoked[k] = 1 => invoked'[k] = 1]_vars

\* a second response carrying the id of a completed call was processed and
\* completed nothing
C14_Witness ==
    /\ last.op = "response"
    /\ <<1, MsgId(last)>> \in DOMAIN invoked
    /\ invoked[<<1, MsgId(last)>>] = 1
    /\ last.completed = {}

\* ---- C15
\* the backend subscription x is active: an eth_subscribe call was answered
\* with x and no eth_unsubscribe for x was sent; its tag is that of the call
ActiveFor(x) ==
    {p \in Promises : /\ promises[p].st = "resolved" /\ promises[p].value = x
                      /\ Unsubs(x) = 0}

\* C15 as stated: in every reachable state a binding exists for
\* subscription id X exactly when an eth_subscribe call was answered with
\* X, no eth_unsubscribe for X was sent and a listener is registered for
\* the tag of X.
C15_AsStated ==
    \A x \in 0..(MaxId + 1) :
        x \in DOMAIN _subs
          <=> \E p \in ActiveFor(x) : Interest(promises[p].tag) # {}

\* C15: a binding exists for subscription id X exactly when an eth_subscribe
\* call was answered with X, no eth_unsubscribe for X was sent and either a
\* listener is registered for the tag of X or the teardown of X is queued
\* as a job that has not run yet; the binding carries that tag; in a state
\* without queued jobs the binding exists exactly when X is active and a
\* listener is registered for its tag.
C15_BindingIffActive ==
    \A x \in 0..(MaxId + 1) :
        /\ x \in DOMAIN _subs
             <=> \E p \in ActiveFor(x) :
                    Interest(promises[p].tag) # {} \/ TeardownQueued(p)
        /\ x \in DOMAIN _subs
             => \A p \in ActiveFor(x) : _subs[x].tag = promises[p].tag
        /\ AtRest
             => (x \in DOMAIN _subs
                   <=> \E p \in ActiveFor(x) : Interest(promises[p].tag) # {})

\* a subscription was bound and unbound again, and another is bound while
\* its listener is registered
C15_Witness ==
    \E x, y \in 1..MaxId :
        /\ AtRest
        /\ x \notin DOMAIN _subs /\ Unsubs(x) = 1
        /\ y \in DOMAIN _subs /\ ActiveFor(y) # {}
        /\ Interest(_subs[y].tag) # {}

\* ---- C16
\* the promise the response of this step answers
AnsweredPromise(p) ==
    /\ ResponseStep /\ last'.msg.result # <<>>
    /\ promises[p].st = "called" /\ promises[p].rid = MsgId(last')
    /\ MsgId(last') \in DOMAIN _requests

\* C16: a _stopEvent that leaves a tag without a listener removes the tag
\* entry before it returns, whatever the state of the cached promise, which
\* stays as it was apart from the teardown now attached to it; a _subscribe
\* for a tag without an entry makes a new promise and caches it, and with
\* plain parameters queues the job of a new eth_subscribe call, also while
\* an older call for the tag is unanswered; the queued call is made when
\* the jobs run; when the older call is answered its teardown removes the
\* binding of its own subscription id only and leaves the tag map as it is.
C16_FreshAfterTeardown ==
    /\ [][\A t \in Tags :
            (StopWithoutInterest(t) /\ t \in DOMAIN _subIds)
               => /\ t \notin DOMAIN _subIds'
                  /\ Len(promises') = Len(promises)
                  /\ promises'[_subIds[t]].st = promises[_subIds[t]].st
                  /\ \E p \in Promises :
                        /\ p = _subIds[t]
                        /\ IF Pending(promises[p])
                           THEN HasTeardown(p)' ELSE TeardownQueued(p)']_vars
    /\ [][\A e \in Events :
            (/\ last'.op = "on" /\ last'.event = e
             /\ SubscribeTag(e) \notin DOMAIN _subIds)
               => /\ Len(promises') = Len(promises) + 1
                  /\ _subIds'[SubscribeTag(e)] = Len(promises')
                  /\ \A i \in 1..Len(promises'[Len(promises')].reactions) :
                        promises'[Len(promises')].reactions[i].kind = "bind"
                  /\ issued' = issued
                  /\ jobs' = IF Param(e).async THEN jobs
                             ELSE Append(jobs, Job("all", Len(promises'),
                                                   NoReaction, NoError))]_vars
    /\ [][\A p \in Promises :
            (last'.op = "drain" /\ JobsOf(p, {"all", "call"}) # {})
               => /\ promises[p].rid = 0
                  /\ promises'[p].st = "called"
                  /\ \E i \in (1..Len(issued')) \ (1..Len(issued)) :
                        /\ issued'[i].payload.method = "eth_subscribe"
                        /\ issued'[i].payload.id = promises'[p].rid]_vars
    /\ [][\A p \in Promises :
            (AnsweredPromise(p) /\ HasTeardown(p))
               => /\ UNCHANGED _subIds
                  /\ DOMAIN _subs' = DOMAIN _subs \ {last'.msg.result[1]}
                  /\ \A y \in DOMAIN _subs' : _subs'[y] = _subs[y]]_vars

\* a tag was subscribed, torn down and subscribed anew before the first
\* answer; the second call was answered and bound, then the first, whose
\* teardown left the second binding and the tag entry in place
C16_Witness ==
    \E p, q \in Promises :
        /\ p < q /\ promises[p].tag = promises[q].tag
        /\ promises[p].st = "resolved" /\ promises[q].st = "resolved"
        /\ last.op = "response" /\ MsgId(last) = promises[p].rid
        /\ promises[q].rid < NextId - 1
        /\ Unsubs(promises[p].value) = 1
        /\ promises[q].value \in DOMAIN _subs
        /\ promises[q].tag \in DOMAIN _subIds /\ _subIds[promises[q].tag] = q

\* ---- C17
\* C17: when the eth_subscribe call of a promise whose teardown is waiting
\* (every listener of the tag left while the call was in flight) is answered
\* with subscription id X, the task that processes the answer first records
\* the binding for X in every waiting _subscribe and then runs the
\* teardown: after it X has no binding, exactly one eth_unsubscribe for X was
\* made, it is the last call made and it is pending; a binding is left for
\* a subscription whose promise is no longer cached under its tag only
\* while the teardown of the promise is queued as a job.
C17_NoLeak ==
    /\ [][\A p \in Promises, x \in 1..MaxId :
            (AnsweredPromise(p) /\ HasTeardown(p) /\ x = last'.msg.result[1])
               => /\ last'.bound = Waiting(p, x)
                  /\ last'.bound # {}
                  /\ x \notin DOMAIN _subs'
                  /\ Unsubs(x) = 0
                  /\ Unsubs(x)' = 1
                  /\ Len(issued') = Len(issued) + 1
                  /\ issued'[Len(issued')].payload.method = "eth_unsubscribe"
                  /\ issued'[Len(issued')].payload.params = <<x>>
                  /\ issued'[Len(issued')].payload.id \in DOMAIN _requests'
                  /\ wire'[Len(wire')].payload = issued'[Len(issued')].payload]_vars
    /\ [](\A p \in Promises :
            (promises[p].st = "resolved" /\ promises[p].value \in DOMAIN _subs)
               => \/ /\ promises[p].tag \in DOMAIN _subIds
                     /\ _subIds[promises[p].tag] = p
                  \/ TeardownQueued(p))

\* the only listener left while the eth_subscribe call was in flight; the
\* answer came, the binding was recorded and removed again and the
\* eth_unsubscribe is on the wire
C17_Witness ==
    /\ last.op = "response" /\ last.msg.result # <<>>
    /\ last.bound # {}
    /\ \A b \in last.bound : b[2] = last.msg.result[1]
    /\ last.msg.result[1] \notin DOMAIN _subs
    /\ Unsubs(last.msg.result[1]) = 1
    /\ _subIds = Empty
    /\ wire[Len(wire)].payload.method = "eth_unsubscribe"

\* ---- C18
\* the listeners of the subscription of promise p have not been withdrawn
Kept(p) ==
    /\ promises[p].tag \in DOMAIN _subIds /\ _subIds[promises[p].tag] = p
    /\ Interest(promises[p].tag) # {}

\* C18: once the handler has processed the answer that carries subscription
\* id X, every notification that names X while the listeners of the tag are
\* kept invokes a dispatch function of the tag, in a later task and in the
\* task of the answer alike.
C18_NoPushDropped ==
    /\ [][\A p \in Promises :
            (/\ last'.op = "push"
             /\ promises[p].st = "resolved"
             /\ promises[p].value = last'.msg.subscription
             /\ Kept(p))
               => last'.dispatch # {}]_vars
    /\ [][\A p \in Promises :
            (/\ last'.op = "burst"
             /\ promises[p].st = "called" /\ promises[p].rid = MsgId(last')
             /\ Kept(p))
               => last'.dispatch # {}]_vars

\* ---- C19
\* the dispatch functions of the _subscribe calls that resumed with
\* subscription id x in the task l describes
ResumedWith(l, x) == {b[1] : b \in {c \in l.bound : c[2] = x}}

\* C19: a notification that names a bound subscription id invokes one
\* dispatch function, the one its binding holds, and leaves the bindings as
\* they are; the binding of an id holds the dispatch function of the latest
\* _subscribe call that resumed with the id: a task in which _subscribe
\* calls resume with the id leaves the function of the latest of them,
\* which is later than the one held before, and any other task leaves the
\* function as it is.
C19_LatestDispatchOnly ==
    /\ [][(last'.op = "push" /\ last'.msg.subscription \in DOMAIN _subs)
            => /\ last'.dispatch = {_subs[last'.msg.subscription].processFunc}
               /\ UNCHANGED _subs]_vars
    /\ [][\A x \in 1..MaxId :
            IF ResumedWith(last', x) # {}
            THEN /\ x \in DOMAIN _subs'
                      => _subs'[x].processFunc = SetMax(ResumedWith(last', x))
                 /\ x \in DOMAIN _subs
                      => \A f \in ResumedWith(last', x) : f > _subs[x].processFunc
            ELSE (x \in DOMAIN _subs /\ x \in DOMAIN _subs')
                      => _subs'[x] = _subs[x]]_vars

\* two _subscribe calls shared one subscription and a notification invoked
\* the dispatch function of the second alone
C19_Witness ==
    /\ last.op = "push"
    /\ last.dispatch = {2}
    /\ nSub = 2
    /\ Cardinality(CallsOf("eth_subscribe")) = 1
    /\ Len(promises) = 1
    /\ _subs[last.msg.subscription].processFunc = 2

\* ---- C20
\* the promise cached under tag t was rejected
CachedRejected(t) ==
    t \in DOMAIN _subIds /\ promises[_subIds[t]].st = "rejected"

\* the response of this step answers the eth_subscribe call of promise p
\* with an error
FailedPromise(p) ==
    /\ ResponseStep /\ last'.msg.result = <<>>
    /\ promises[p].st = "called" /\ promises[p].rid = MsgId(last')
    /\ MsgId(last') \in DOMAIN _requests

\* C20: an error answer to an eth_subscribe call rejects its promise with
\* that error, fails every waiting _subscribe call with it, creates no
\* binding, makes no call and leaves the tag map as it is, so the rejected
\* promise stays cached; a _subscribe for a tag whose cached promise was
\* rejected makes no promise and no call and queues its continuation, which
\* fails with the error the promise was rejected with when the jobs run; a
\* _stopEvent that leaves such a tag without a listener removes the tag
\* entry and makes no call; no binding is ever made and no eth_unsubscribe
\* ever sent for a rejected promise.
C20_FailedSubscribeCached ==
    /\ [][\A p \in Promises :
            FailedPromise(p)
               => /\ promises'[p].st = "rejected"
                  /\ promises'[p].error = Completion(last').outcome
                  /\ promises'[p].error.kind = "reject"
                  /\ last'.failed = Waiting(p, promises'[p].error)
                  /\ last'.bound = {}
                  /\ issued' = issued
                  /\ UNCHANGED <<_subIds, _subs>>]_vars
    /\ [][\A e \in Events :
            (last'.op = "on" /\ last'.event = e /\ CachedRejected(SubscribeTag(e)))
               => /\ jobs' = Append(jobs,
                                Job("react", _subIds[SubscribeTag(e)],
                                    [kind |-> "bind", tag |-> SubscribeTag(e),
                                     fn |-> nSub'], NoError))
                  /\ last'.bound = {}
                  /\ issued' = issued
                  /\ UNCHANGED <<_subIds, _subs, promises>>]_vars
    /\ [][last'.op = "drain"
            => last'.failed
                 = {<<jobs[i].r.fn, promises[jobs[i].p].error>> :
                      i \in {k \in 1..Len(jobs) :
                                /\ jobs[k].kind = "react"
                                /\ jobs[k].r.kind = "bind"
                                /\ promises[jobs[k].p].st = "rejected"}}]_vars
    /\ [][\A t \in Tags :
            (StopWithoutInterest(t) /\ CachedRejected(t))
               => /\ t \notin DOMAIN _subIds'
                  /\ issued' = issued
                  /\ UNCHANGED <<_subs, promises>>]_vars
    /\ [][\A p \in Promises :
            promises[p].st = "rejected"
               => /\ promises'[p] = promises[p]
                  /\ \A b \in last'.bound : b[2] # SubIdOf(promises[p].rid)
                  /\ Unsubs(SubIdOf(promises[p].rid))' = 0]_vars

\* the backend answered eth_subscribe with an error; a second listener was
\* registered for the tag and its _subscribe failed with that error, with
\* no second call
C20_Witness ==
    \E t \in Tags :
        /\ last.op = "drain"
        /\ CachedRejected(t)
        /\ promises[_subIds[t]].rid # 0
        /\ last.failed = {<<2, promises[_subIds[t]].error>>}
        /\ promises[_subIds[t]].error.message = "bad"
        /\ Cardinality(CallsOf("eth_subscribe")) = 1
        /\ Len(promises) = 1
        /\ nSub = 2
        /\ _subs = Empty

====
